---------------------------- MODULE Spec2Model ----------------------------
(***************************************************************************)
(* HubSpot -> Slack daily CRM digest (hubspot_digest.py, settings.py).     *)
(*                                                                         *)
(* One run of run_digest is modelled as a sequence of steps, one step per  *)
(* external interaction (connector call or file access), in the order of   *)
(* the source.  The connector, the snapshot file and the mapping file are  *)
(* the environment: every connector result is chosen nondeterministically  *)
(* at the call.  Runs repeat (a scheduled job), sharing the snapshot file. *)
(***************************************************************************)
EXTENDS Integers, Sequences, FiniteSets, TLC

VARIABLES
    HUBSPOT_IDENTIFIER,   \* Settings.HUBSPOT_IDENTIFIER (None when unset)
    SLACK_IDENTIFIER,     \* Settings.SLACK_IDENTIFIER (None when unset)
    DIGEST_CHANNEL_ID,    \* Settings.DIGEST_CHANNEL_ID ("" when unset)
    mapping_file,         \* content of Settings.MAPPING_FILE: owner id -> slack_user_id
    snapshot_file,        \* content of Settings.SNAPSHOT_FILE: deal id -> last modified
    pc,                   \* position of run_digest
    owner_to_slack,       \* run_digest local
    all_results,          \* fetch_recent_deals local
    after,                \* fetch_recent_deals local
    page,                 \* fetch_recent_deals local
    requests,             \* cursors carried by the search requests of this fetch
    responses,            \* responses received by this fetch
    deals,                \* run_digest local
    previous_snapshot,    \* run_digest local
    current_snapshot,     \* run_digest local
    changed_deals,        \* run_digest local
    grouped,              \* run_digest local: ordered dict as a sequence of items
    dm_index,             \* position of the loop over grouped.items()
    calls,                \* external calls of this run, in order
    unnotified            \* history: the changed deals of the run before whose
                          \* message failed although their snapshot was written

vars == <<HUBSPOT_IDENTIFIER, SLACK_IDENTIFIER, DIGEST_CHANNEL_ID, mapping_file,
          snapshot_file, pc, owner_to_slack, all_results, after, page, requests,
          responses, deals, previous_snapshot, current_snapshot, changed_deals,
          grouped, dm_index, calls, unnotified>>

(***************************************************************************)
(* Bounds of the model.                                                    *)
(***************************************************************************)
MaxDeals == 2      \* records the source returns to one fetch, over all pages
MaxPages == 2      \* length of the source's cursor chain

(***************************************************************************)
(* Values.                                                                 *)
(***************************************************************************)
None == "<None>"                  \* Python's None
DealIds == {"1", "2"}
OwnerIds == {"42", "7"}
Markers == {"t1", "t2"}
Cursors == {"c1", "c2"}
SlackUserOf == [o \in OwnerIds |-> IF o = "42" THEN "U42" ELSE "U7"]

\* the owner of each deal of the source
OwnerOf == [d \in DealIds |-> IF d = "1" THEN "42" ELSE "7"]

\* a deal as the source returns it: any deal of the source, with any marker
SourceDeals ==
    {[id |-> d, hubspot_owner_id |-> OwnerOf[d], hs_lastmodifieddate |-> m] :
        d \in DealIds, m \in Markers}

EmptyDict == [k \in {} |-> None]
Mappings == {[o \in D |-> SlackUserOf[o]] : D \in SUBSET OwnerIds}

\* sequences over S of length at most n
SeqUpTo(S, n) == UNION {[1..k -> S] : k \in 0..n}

\* dict.get(key)
DictGet(d, key) == IF key \in DOMAIN d THEN d[key] ELSE None
\* d[key] = value
DictSet(d, key, value) == (key :> value) @@ d
\* Python truthiness of an Optional[str]
Truthy(x) == x /= None /\ x /= ""
\* str(x)
Str(x) == IF x = None THEN "None" ELSE x


(***************************************************************************)
(* Field access of a deal (run_digest, group_deals_by_owner).              *)
(***************************************************************************)
\* deal_id = str(deal.get("id") or deal.get("dealId"))
DealId(deal) == Str(IF Truthy(deal.id) THEN deal.id ELSE None)
\* last_modified = props.get("hs_lastmodifieddate") or deal.get(...) or ""
LastModified(deal) ==
    IF Truthy(deal.hs_lastmodifieddate) THEN deal.hs_lastmodifieddate ELSE ""
\* as OwnerKey, without the "unknown" bucket
OwnerKey_NoFallback(deal) == Str(deal.hubspot_owner_id)

\* str(owner_id or "unknown")
OwnerKey(deal) ==
    IF Truthy(deal.hubspot_owner_id) THEN Str(deal.hubspot_owner_id) ELSE "unknown"

(***************************************************************************)
(* Snapshot delta (run_digest).                                            *)
(***************************************************************************)
\* as IsChanged, but a deal the previous snapshot does not know is not reported
IsChanged_KnownOnly(prev, deal_id, last_modified) ==
    LET prev_last == DictGet(prev, deal_id)
    IN  prev_last /= None /\ prev_last /= last_modified

\* prev_last is None or prev_last != last_modified
IsChanged(prev, deal_id, last_modified) ==
    LET prev_last == DictGet(prev, deal_id)
    IN  prev_last = None \/ prev_last /= last_modified

\* as FreshSnapshot, but the new snapshot starts from the previous one
FreshSnapshot_Merge(prev) == prev

\* current_snapshot: Dict[str, str] = {}
FreshSnapshot(prev) == EmptyDict

\* current_snapshot[deal_id] = last_modified
RecordSeen(snapshot, deal_id, last_modified) == DictSet(snapshot, deal_id, last_modified)

\* the loop "for deal in deals", from its i-th iteration on
RECURSIVE DetectFrom(_, _, _, _, _)
DetectFrom(ds, prev, i, snapshot, changed) ==
    IF i > Len(ds)
    THEN [current_snapshot |-> snapshot, changed_deals |-> changed]
    ELSE LET deal == ds[i]
             deal_id == DealId(deal)
             last_modified == LastModified(deal)
         IN  DetectFrom(ds, prev, i + 1,
                        RecordSeen(snapshot, deal_id, last_modified),
                        IF IsChanged(prev, deal_id, last_modified)
                        THEN Append(changed, deal)
                        ELSE changed)

(***************************************************************************)
(* group_deals_by_owner: a defaultdict(list), kept in insertion order, as  *)
(* a sequence of items [owner, deals].                                     *)
(***************************************************************************)
ItemKeys(items) == {items[i].owner : i \in DOMAIN items}
ItemIndex(items, key) == CHOOSE i \in DOMAIN items : items[i].owner = key

\* as GroupAppend, but every deal opens an item of its own
GroupAppend_NoMerge(items, key, deal) ==
    Append(items, [owner |-> key, deals |-> <<deal>>])

\* grouped[key].append(deal)
GroupAppend(items, key, deal) ==
    IF key \in ItemKeys(items)
    THEN [items EXCEPT ![ItemIndex(items, key)].deals = Append(@, deal)]
    ELSE Append(items, [owner |-> key, deals |-> <<deal>>])

RECURSIVE GroupFrom(_, _, _)
GroupFrom(ds, i, items) ==
    IF i > Len(ds) THEN items
    ELSE GroupFrom(ds, i + 1, GroupAppend(items, OwnerKey(ds[i]), ds[i]))

group_deals_by_owner(ds) == GroupFrom(ds, 1, <<>>)

(***************************************************************************)
(* Rendering.                                                              *)
(***************************************************************************)
MaxInline == 3     \* deals[:3], len(deals) > 3, len(deals) - 3

\* build_dm_message: one numbered entry per deal of the owner, in order
build_dm_message(owner_deals) == [kind |-> "dm", deals |-> owner_deals]

\* the "no changes" notice of run_digest
NoChangesMessage == [kind |-> "nochange"]

\* as InsertByCount, but an item goes before the items of its own length
RECURSIVE InsertByCount_Unstable(_, _)
InsertByCount_Unstable(sorted, item) ==
    IF sorted = <<>> THEN <<item>>
    ELSE IF Len(Head(sorted).deals) > Len(item.deals)
         THEN <<Head(sorted)>> \o InsertByCount_Unstable(Tail(sorted), item)
         ELSE <<item>> \o sorted

\* sorted(grouped_deals.items(), key=lambda x: len(x[1]), reverse=True):
\* a stable sort, so an item goes behind every item that is not shorter
RECURSIVE InsertByCount(_, _)
InsertByCount(sorted, item) ==
    IF sorted = <<>> THEN <<item>>
    ELSE IF Len(Head(sorted).deals) >= Len(item.deals)
         THEN <<Head(sorted)>> \o InsertByCount(Tail(sorted), item)
         ELSE <<item>> \o sorted

RECURSIVE SortFrom(_, _, _)
SortFrom(items, i, sorted) ==
    IF i > Len(items) THEN sorted
    ELSE SortFrom(items, i + 1, InsertByCount(sorted, items[i]))

SortedByCount(items) == SortFrom(items, 1, <<>>)

\* as OwnerLabel, without the fallback to the owner identifier
OwnerLabel_NameOnly(owner_name, owner_id) == owner_name

\* owner_label = owner_name or owner_id
OwnerLabel(owner_name, owner_id) == IF Truthy(owner_name) THEN owner_name ELSE owner_id

\* as MoreLine, but the line is there from MaxInline deals on
MoreLine_FromLimit(ds) == IF Len(ds) >= MaxInline THEN <<Len(ds) - MaxInline>> ELSE <<>>

\* deals[:3]
Inline(ds) == SubSeq(ds, 1, IF Len(ds) < MaxInline THEN Len(ds) ELSE MaxInline)
\* the line "...and N more", when there is one
MoreLine(ds) == IF Len(ds) > MaxInline THEN <<Len(ds) - MaxInline>> ELSE <<>>

\* total_deals = sum(len(deals) for deals in grouped_deals.values())
RECURSIVE TotalFrom(_, _)
TotalFrom(items, i) ==
    IF i > Len(items) THEN 0 ELSE Len(items[i].deals) + TotalFrom(items, i + 1)

\* the block of one owner in the channel summary
SummaryEntry(item, owner_name) ==
    [owner |-> item.owner,
     label |-> OwnerLabel(owner_name, item.owner),
     count |-> Len(item.deals),
     shown |-> Inline(item.deals),
     more  |-> MoreLine(item.deals)]

\* build_channel_summary; names[i] is what get_slack_display_name returns for
\* the i-th owner in sorted order (None when it is not called or fails)
build_channel_summary(grouped_deals, names) ==
    LET sorted == SortedByCount(grouped_deals)
    IN  [kind   |-> "summary",
         total  |-> TotalFrom(grouped_deals, 1),
         owners |-> [i \in DOMAIN sorted |-> SummaryEntry(sorted[i], names[i])]]

(***************************************************************************)
(* Connector results and the log of external calls.                        *)
(***************************************************************************)
NoText == [kind |-> "none"]
\* one external call: the tool, its target (service, channel or user), the
\* text of a message, what the connector returned, and the owner whose
\* iteration of the direct-message loop made it (None outside that loop)
Call(tool, target, text, result, owner) ==
    [tool |-> tool, target |-> target, text |-> text, result |-> result, owner |-> owner]

\* what hubspot_deals_search can return: null, a result without a dict
\* payload, or a page of records with an optional next cursor
NullResponse == [truthy |-> FALSE, is_dict |-> FALSE, results |-> <<>>, next |-> None]
MalformedResponse == [truthy |-> TRUE, is_dict |-> FALSE, results |-> <<>>, next |-> None]
PageResponse(results, next) ==
    [truthy |-> TRUE, is_dict |-> TRUE, results |-> results, next |-> next]

\* the source has at most MaxDeals records in the window and a cursor chain
\* of at most MaxPages pages
SearchResponses(fetched, page_no) ==
    {NullResponse, MalformedResponse} \cup
    {PageResponse(r, n) :
        r \in SeqUpTo(SourceDeals, MaxDeals - Len(fetched)),
        n \in IF page_no < MaxPages THEN Cursors \cup {None} ELSE {None}}

(***************************************************************************)
(* fetch_recent_deals: one iteration of "while True".                      *)
(***************************************************************************)
\* if after: params["after"] = after
RequestCursor(cursor) == IF Truthy(cursor) THEN cursor ELSE None

\* as FetchStep, but the loop ends behind its first page
FetchStep_SinglePage(fetched, cursor, result) ==
    IF ~result.truthy \/ ~result.is_dict
    THEN [all_results |-> fetched, after |-> cursor, more |-> FALSE]
    ELSE [all_results |-> fetched \o result.results, after |-> result.next, more |-> FALSE]

\* as FetchStep, but a null or malformed response discards the records of
\* the pages before it
FetchStep_DropPartial(fetched, cursor, result) ==
    IF ~result.truthy \/ ~result.is_dict
    THEN [all_results |-> <<>>, after |-> cursor, more |-> FALSE]
    ELSE [all_results |-> fetched \o result.results,
          after |-> result.next,
          more |-> Truthy(result.next)]

\* as FetchStep, but a null response is asked for again
FetchStep_RetryOnNull(fetched, cursor, result) ==
    IF ~result.truthy THEN [all_results |-> fetched, after |-> cursor, more |-> TRUE]
    ELSE IF ~result.is_dict THEN [all_results |-> fetched, after |-> cursor, more |-> FALSE]
    ELSE [all_results |-> fetched \o result.results,
          after |-> result.next,
          more |-> Truthy(result.next)]

\* the page's records and cursor; more says whether the loop goes on
FetchStep(fetched, cursor, result) ==
    IF ~result.truthy THEN [all_results |-> fetched, after |-> cursor, more |-> FALSE]
    ELSE IF ~result.is_dict THEN [all_results |-> fetched, after |-> cursor, more |-> FALSE]
    ELSE [all_results |-> fetched \o result.results,
          after |-> result.next,
          more |-> Truthy(result.next)]

(***************************************************************************)
(* Decisions of run_digest.                                                *)
(***************************************************************************)
\* as MissingIdentifier, but only the HubSpot identifier is looked at
MissingIdentifier_HubspotOnly(hubspot_identifier, slack_identifier) ==
    ~Truthy(hubspot_identifier)
\* if not hubspot_identifier / if not slack_identifier
MissingIdentifier(hubspot_identifier, slack_identifier) ==
    ~Truthy(hubspot_identifier) \/ ~Truthy(slack_identifier)
\* as HubspotConnected, but the answers of the checks are not looked at
HubspotConnected_Assumed(crm, hub) == TRUE
\* is_service_connected("hubspotcrm", ..) or is_service_connected("hubspot", ..)
HubspotConnected(crm, hub) == crm \/ hub
\* as ChannelConfigured, but the channel is never taken as configured
ChannelConfigured_Never(channel) == FALSE
\* if Settings.DIGEST_CHANNEL_ID
ChannelConfigured(channel) == Truthy(channel)
\* slack_user_id = owner_to_slack.get(str(owner_id))
DmRecipient(mapping, owner_id) == DictGet(mapping, owner_id)
\* if not slack_user_id: continue
SkipDm(slack_user_id) == ~Truthy(slack_user_id)
\* as NextDmIndex, but a failed send ends the loop
NextDmIndex_AbortOnFailure(i, n, result) == IF result = None THEN n + 1 ELSE i + 1
\* the loop over grouped.items() goes on to the next owner whatever
\* send_slack_message got back
NextDmIndex(i, n, result) == i + 1
\* as NoChanges, but the no-change path is never taken
NoChanges_Never(changed) == FALSE
\* if not changed_deals
NoChanges(changed) == changed = <<>>
\* as StepAfterDetect, but the snapshot is saved only when a deal changed
StepAfterDetect_SaveOnChange(changed) ==
    IF changed = <<>> THEN "no_changes" ELSE "save_snapshot"
\* save_snapshot(snapshot_path, current_snapshot) follows the detection
\* loop whatever the loop found
StepAfterDetect(changed) == "save_snapshot"
\* as SnapshotOnDisk, but an empty snapshot is not written
SnapshotOnDisk_KeepWhenEmpty(outcome, old, new) ==
    CASE outcome = "written" -> IF new = EmptyDict THEN old ELSE new
      [] outcome = "untouched" -> old
      [] outcome = "unreadable" -> EmptyDict
\* the snapshot file behind save_snapshot: json.dump replaces the content
\* with the new snapshot; a failure before open() leaves the file as it
\* was, a failure behind it leaves a file that load_snapshot reads as {}
SnapshotOnDisk(outcome, old, new) ==
    CASE outcome = "written" -> new
      [] outcome = "untouched" -> old
      [] outcome = "unreadable" -> EmptyDict
\* as StepAfterSave, but a write that failed ends the run
StepAfterSave_FailureFatal(outcome, changed) ==
    IF outcome /= "written" THEN "finished"
    ELSE IF NoChanges(changed) THEN "no_changes" ELSE "group"
\* save_snapshot returns None whatever happened to the write; the run goes
\* on with "if not changed_deals"
StepAfterSave(outcome, changed) ==
    IF NoChanges(changed) THEN "no_changes" ELSE "group"

(***************************************************************************)
(* The state before the first run: the settings and the mapping file are   *)
(* any of the bounded values, there is no snapshot file yet (load_snapshot *)
(* reads a missing file as {}).                                            *)
(***************************************************************************)
Locals ==
    /\ owner_to_slack = EmptyDict
    /\ all_results = <<>>
    /\ after = None
    /\ page = 0
    /\ requests = <<>>
    /\ responses = <<>>
    /\ deals = <<>>
    /\ previous_snapshot = EmptyDict
    /\ current_snapshot = EmptyDict
    /\ changed_deals = <<>>
    /\ grouped = <<>>
    /\ dm_index = 0
    /\ calls = <<>>

Init ==
    /\ HUBSPOT_IDENTIFIER \in {None, "hs-user"}
    /\ SLACK_IDENTIFIER \in {None, "slack-user"}
    /\ DIGEST_CHANNEL_ID \in {"", "C1"}
    /\ mapping_file \in Mappings
    /\ snapshot_file = EmptyDict
    /\ pc = "start"
    /\ Locals
    /\ unnotified = {}

settings == <<HUBSPOT_IDENTIFIER, SLACK_IDENTIFIER, DIGEST_CHANNEL_ID, mapping_file>>
fetch_locals == <<all_results, after, page, requests, responses>>
delta_locals == <<deals, previous_snapshot, current_snapshot, changed_deals>>
dm_locals == <<grouped, dm_index>>

(***************************************************************************)
(* run_digest, step by step.                                               *)
(***************************************************************************)
\* the two identifier checks: a missing identifier ends the run
CheckIdentifiers ==
    /\ pc = "start"
    /\ pc' = IF MissingIdentifier(HUBSPOT_IDENTIFIER, SLACK_IDENTIFIER)
             THEN "halted_config" ELSE "probe_hubspot"
    /\ UNCHANGED <<unnotified, settings, snapshot_file, owner_to_slack, fetch_locals,
                   delta_locals, dm_locals, calls>>

\* the HubSpot connection check; "or" asks for "hubspot" only when
\* "hubspotcrm" is not connected
ProbeHubspot ==
    /\ pc = "probe_hubspot"
    /\ \E crm \in BOOLEAN, hub \in BOOLEAN :
          LET probes == IF crm
                        THEN <<Call("is_service_connected", "hubspotcrm", NoText, "true", None)>>
                        ELSE <<Call("is_service_connected", "hubspotcrm", NoText, "false", None),
                               Call("is_service_connected", "hubspot", NoText,
                                    IF hub THEN "true" ELSE "false", None)>>
          IN  IF HubspotConnected(crm, hub)
              THEN /\ calls' = calls \o probes
                   /\ pc' = "probe_slack"
              ELSE /\ calls' = (calls \o probes) \o
                               <<Call("get_authorization_url", "hubspot", NoText, "url", None)>>
                   /\ pc' = "halted_auth"
    /\ UNCHANGED <<unnotified, settings, snapshot_file, owner_to_slack, fetch_locals,
                   delta_locals, dm_locals>>

\* the Slack connection check
ProbeSlack ==
    /\ pc = "probe_slack"
    /\ \E connected \in BOOLEAN :
          IF connected
          THEN /\ calls' = Append(calls, Call("is_service_connected", "slack", NoText, "true", None))
               /\ pc' = "load_mapping"
          ELSE /\ calls' = calls \o
                           <<Call("is_service_connected", "slack", NoText, "false", None),
                             Call("get_authorization_url", "slack", NoText, "url", None)>>
               /\ pc' = "halted_auth"
    /\ UNCHANGED <<unnotified, settings, snapshot_file, owner_to_slack, fetch_locals,
                   delta_locals, dm_locals>>

\* owner_to_slack = load_owner_mapping(Settings.MAPPING_FILE)
LoadMapping ==
    /\ pc = "load_mapping"
    /\ owner_to_slack' = mapping_file
    /\ pc' = "fetch"
    /\ UNCHANGED <<unnotified, settings, snapshot_file, fetch_locals, delta_locals, dm_locals, calls>>

\* one iteration of the pagination loop of fetch_recent_deals
FetchPage ==
    /\ pc = "fetch"
    /\ \E result \in SearchResponses(all_results, page + 1) :
          LET step == FetchStep(all_results, after, result)
          IN  /\ page' = page + 1
              /\ requests' = Append(requests, RequestCursor(after))
              /\ responses' = Append(responses, result)
              /\ all_results' = step.all_results
              /\ after' = step.after
              /\ pc' = IF step.more THEN "fetch" ELSE "fetched"
    /\ calls' = Append(calls, Call("hubspot_deals_search", "hubspot", NoText, "result", None))
    /\ UNCHANGED <<unnotified, settings, snapshot_file, owner_to_slack, delta_locals, dm_locals>>

\* return all_results; the locals of fetch_recent_deals are gone
FetchReturn ==
    /\ pc = "fetched"
    /\ deals' = all_results
    /\ all_results' = <<>>
    /\ after' = None
    /\ page' = 0
    /\ requests' = <<>>
    /\ responses' = <<>>
    /\ pc' = "load_snapshot"
    /\ UNCHANGED <<unnotified, settings, snapshot_file, owner_to_slack, previous_snapshot,
                   current_snapshot, changed_deals, dm_locals, calls>>

\* previous_snapshot = load_snapshot(snapshot_path)
LoadSnapshot ==
    /\ pc = "load_snapshot"
    /\ previous_snapshot' = snapshot_file
    /\ calls' = Append(calls, Call("load_snapshot", "file", NoText, "dict", None))
    /\ pc' = "detect"
    /\ UNCHANGED <<unnotified, settings, snapshot_file, owner_to_slack, fetch_locals, deals,
                   current_snapshot, changed_deals, dm_locals>>

\* the loop over deals that fills current_snapshot and changed_deals
Detect ==
    /\ pc = "detect"
    /\ LET delta == DetectFrom(deals, previous_snapshot, 1,
                               FreshSnapshot(previous_snapshot), <<>>)
       IN  /\ current_snapshot' = delta.current_snapshot
           /\ changed_deals' = delta.changed_deals
    /\ pc' = StepAfterDetect(changed_deals')
    /\ UNCHANGED <<unnotified, settings, snapshot_file, owner_to_slack, fetch_locals, deals,
                   previous_snapshot, dm_locals, calls>>

\* save_snapshot(snapshot_path, current_snapshot): the write succeeds, or
\* fails leaving the file as it was, or fails leaving a file that
\* load_snapshot reads as {}
SaveSnapshot ==
    /\ pc = "save_snapshot"
    /\ \E outcome \in {"written", "untouched", "unreadable"} :
          /\ snapshot_file' = SnapshotOnDisk(outcome, snapshot_file, current_snapshot)
          /\ calls' = Append(calls, Call("save_snapshot", "file", NoText, outcome, None))
          /\ pc' = StepAfterSave(outcome, changed_deals)
    /\ UNCHANGED <<unnotified, settings, owner_to_slack, fetch_locals, delta_locals, dm_locals>>

\* no changed deals: the optional channel notice, then return
NoChangesNotice ==
    /\ pc = "no_changes"
    /\ IF ChannelConfigured(DIGEST_CHANNEL_ID)
       THEN \E result \in {"ts", None} :
               calls' = Append(calls, Call("slack_send_message", DIGEST_CHANNEL_ID,
                                           NoChangesMessage, result, None))
       ELSE calls' = calls
    /\ pc' = "finished_no_changes"
    /\ UNCHANGED <<unnotified, settings, snapshot_file, owner_to_slack, fetch_locals,
                   delta_locals, dm_locals>>

\* grouped = group_deals_by_owner(changed_deals)
Group ==
    /\ pc = "group"
    /\ grouped' = group_deals_by_owner(changed_deals)
    /\ dm_index' = 1
    /\ pc' = IF grouped' = <<>> THEN "summary" ELSE "dm_loop"
    /\ UNCHANGED <<unnotified, settings, snapshot_file, owner_to_slack, fetch_locals,
                   delta_locals, calls>>

\* one iteration of the loop over grouped.items()
SendDm ==
    /\ pc = "dm_loop"
    /\ LET owner_id == grouped[dm_index].owner
           owner_deals == grouped[dm_index].deals
           slack_user_id == DmRecipient(owner_to_slack, owner_id)
       IN  IF SkipDm(slack_user_id)
           THEN /\ calls' = calls
                /\ dm_index' = dm_index + 1
           ELSE \E result \in {"ts", None} :
                   /\ calls' = Append(calls, Call("slack_send_message", slack_user_id,
                                                  build_dm_message(owner_deals), result,
                                                  owner_id))
                   /\ dm_index' = NextDmIndex(dm_index, Len(grouped), result)
    /\ pc' = IF dm_index' > Len(grouped) THEN "summary" ELSE "dm_loop"
    /\ UNCHANGED <<unnotified, settings, snapshot_file, owner_to_slack, fetch_locals,
                   delta_locals, grouped>>

\* what slack_get_user_info knows of a Slack user
DisplayNameOf(slack_user_id) == IF slack_user_id = "U42" THEN "ann" ELSE "bob"

\* get_slack_display_name: None without a user id or when the lookup fails
get_slack_display_name(slack_user_id, found) ==
    IF ~Truthy(slack_user_id) THEN None
    ELSE IF found THEN DisplayNameOf(slack_user_id) ELSE None

\* owner_name = get_slack_display_name(..) if slack_user_id else None
OwnerName(mapping, owner_id, found) ==
    LET slack_user_id == DictGet(mapping, owner_id)
    IN  IF Truthy(slack_user_id) THEN get_slack_display_name(slack_user_id, found) ELSE None

\* the slack_get_user_info calls build_channel_summary makes, in sorted order
RECURSIVE LookupCalls(_, _, _, _)
LookupCalls(sorted, mapping, found, i) ==
    IF i > Len(sorted) THEN <<>>
    ELSE LET slack_user_id == DictGet(mapping, sorted[i].owner)
             name == OwnerName(mapping, sorted[i].owner, found[i])
         IN  (IF Truthy(slack_user_id)
              THEN <<Call("slack_get_user_info", slack_user_id, NoText, name, None)>>
              ELSE <<>>) \o LookupCalls(sorted, mapping, found, i + 1)

\* the channel summary, when a channel is configured
SendSummary ==
    /\ pc = "summary"
    /\ IF ChannelConfigured(DIGEST_CHANNEL_ID)
       THEN LET sorted == SortedByCount(grouped)
            IN  \E found \in [DOMAIN sorted -> BOOLEAN], result \in {"ts", None} :
                   LET names == [i \in DOMAIN sorted |->
                                    OwnerName(owner_to_slack, sorted[i].owner, found[i])]
                   IN  calls' = (calls \o LookupCalls(sorted, owner_to_slack, found, 1)) \o
                                <<Call("slack_send_message", DIGEST_CHANNEL_ID,
                                       build_channel_summary(grouped, names), result, None)>>
       ELSE calls' = calls
    /\ pc' = "finished"
    /\ UNCHANGED <<unnotified, settings, snapshot_file, owner_to_slack, fetch_locals,
                   delta_locals, dm_locals>>

Terminal == {"halted_config", "halted_auth", "finished_no_changes", "finished"}

\* the next scheduled run: a new process, the files as the last run left them
NewRun ==
    /\ pc \in Terminal
    /\ pc' = "start"
    /\ owner_to_slack' = EmptyDict
    /\ all_results' = <<>>
    /\ after' = None
    /\ page' = 0
    /\ requests' = <<>>
    /\ responses' = <<>>
    /\ deals' = <<>>
    /\ previous_snapshot' = EmptyDict
    /\ current_snapshot' = EmptyDict
    /\ changed_deals' = <<>>
    /\ grouped' = <<>>
    /\ dm_index' = 0
    /\ calls' = <<>>
    /\ unnotified' = {}
    /\ UNCHANGED <<settings, snapshot_file>>

Next ==
    \/ CheckIdentifiers
    \/ ProbeHubspot
    \/ ProbeSlack
    \/ LoadMapping
    \/ FetchPage
    \/ FetchReturn
    \/ LoadSnapshot
    \/ Detect
    \/ SaveSnapshot
    \/ NoChangesNotice
    \/ Group
    \/ SendDm
    \/ SendSummary
    \/ NewRun

Spec == Init /\ [][Next]_vars

(***************************************************************************)
(* Properties.                                                             *)
(***************************************************************************)
\* the positions of run_digest behind the snapshot delta loop
AfterDetect == {"save_snapshot", "no_changes", "group", "dm_loop", "summary",
                "finished_no_changes", "finished"}
\* the positions behind save_snapshot
AfterSave == AfterDetect \ {"save_snapshot"}

\* the identifiers occurring in a record sequence
IdsOf(R) == {DealId(R[i]) : i \in DOMAIN R}
\* the number of calls of a log that satisfy Test
CountCalls(log, Test(_)) == Len(SelectSeq(log, Test))
IsSend(c) == c.tool = "slack_send_message"
IsDm(c) == IsSend(c) /\ c.text.kind = "dm"
IsSummary(c) == IsSend(c) /\ c.text.kind = "summary"
IsNotice(c) == IsSend(c) /\ c.text.kind = "nochange"

\* the claim's condition on a record r of R under the previous snapshot S
NewOrModified(S, r) ==
    \/ DealId(r) \notin DOMAIN S
    \/ S[DealId(r)] /= LastModified(r)

\* C1: once the delta loop has run, changed_deals is the subsequence of the
\* fetched records whose identifier is no key of the previous snapshot or
\* whose marker differs from the snapshot's: exactly those records, in
\* the order of the fetch.
C1_ChangeDetection ==
    pc \in AfterDetect =>
        changed_deals = SelectSeq(deals, LAMBDA r : NewOrModified(previous_snapshot, r))

\* a run that fetched a record known with another marker (changed) and a
\* record known with the same marker (not changed)
C1_Witness ==
    /\ pc \in AfterDetect
    /\ \E i, j \in DOMAIN deals :
          /\ DealId(deals[i]) \in DOMAIN previous_snapshot
          /\ previous_snapshot[DealId(deals[i])] /= LastModified(deals[i])
          /\ DealId(deals[j]) \in DOMAIN previous_snapshot
          /\ previous_snapshot[DealId(deals[j])] = LastModified(deals[j])
    /\ Len(changed_deals) = 1

\* C2: the snapshot handed to save_snapshot has exactly the identifiers of
\* the fetched records as keys, whatever the previous snapshot holds, and a
\* successful write leaves exactly these keys in the file.
C2_SnapshotReplaced ==
    /\ pc \in AfterDetect => DOMAIN current_snapshot = IdsOf(deals)
    /\ (pc \in AfterSave /\ calls[Len(calls)].tool = "save_snapshot"
            /\ calls[Len(calls)].result = "written")
          => DOMAIN snapshot_file = IdsOf(deals)

\* a written snapshot that drops an identifier of the previous snapshot
C2_Witness ==
    /\ pc \in AfterSave
    /\ calls[Len(calls)].tool = "save_snapshot"
    /\ calls[Len(calls)].result = "written"
    /\ deals /= <<>>
    /\ \E k \in DOMAIN previous_snapshot : k \notin IdsOf(deals)
    /\ \E i, j \in DOMAIN deals : i /= j /\ DealId(deals[i]) = DealId(deals[j])

\* the new snapshot of a run that fetches R
SnapshotAfter(R) == DetectFrom(R, EmptyDict, 1, EmptyDict, <<>>).current_snapshot

\* C3: a run that fetches the records R and loads as previous snapshot the
\* new snapshot of an earlier run on the same R has no changed deals.
C3_Idempotence ==
    (pc \in AfterDetect /\ previous_snapshot = SnapshotAfter(deals))
        => changed_deals = <<>>

\* the owners that have at least one changed record
OwnersChanged == {OwnerKey(changed_deals[i]) : i \in DOMAIN changed_deals}
\* every owner identifier of the model
OwnerKeys == OwnerIds \cup {"unknown"}
\* the direct messages of this run sent for owner o
DmCount(o) == CountCalls(calls, LAMBDA c : IsDm(c) /\ c.owner = o)
\* the positions behind the loop over the owners
AfterDmLoop == {"summary", "finished"}

\* C4: in a run with changed records, an owner gets one direct message, sent
\* to its mapped recipient, if it has a changed record and a mapping entry,
\* and none otherwise; at no time has an owner got two.
C4_OneDmPerMappedOwner ==
    /\ \A o \in OwnerKeys : DmCount(o) <= 1
    /\ \A i \in DOMAIN calls :
          IsDm(calls[i]) =>
              /\ calls[i].owner \in OwnersChanged \cap DOMAIN owner_to_slack
              /\ calls[i].target = owner_to_slack[calls[i].owner]
    /\ pc \in AfterDmLoop =>
          \A o \in OwnerKeys :
              DmCount(o) = IF o \in OwnersChanged /\ o \in DOMAIN owner_to_slack
                           THEN 1 ELSE 0

\* a finished run where an owner with changes and a mapping entry got its
\* message and an owner with changes and no mapping entry got none
C4_Witness ==
    /\ pc = "finished"
    /\ \E o \in OwnersChanged : o \in DOMAIN owner_to_slack /\ DmCount(o) = 1
    /\ \E o \in OwnersChanged : o \notin DOMAIN owner_to_slack /\ DmCount(o) = 0

\* a connection check answered "not connected" for the source or the sink
\* (the source is not connected when "hubspotcrm" and "hubspot" both are not)
NotConnectedReported ==
    \E i \in DOMAIN calls :
        /\ calls[i].tool = "is_service_connected"
        /\ calls[i].target \in {"hubspot", "slack"}
        /\ calls[i].result = "false"

\* C5: when the source or the sink is reported not connected, the run has
\* halted behind one authorization-link request for that service, and it has
\* made no search, no snapshot read or write and no send; the run halts for
\* authorization in no other case.
C5_AuthorizationHalt ==
    /\ NotConnectedReported =>
          /\ pc = "halted_auth"
          /\ Len(calls) >= 2
          /\ calls[Len(calls)].tool = "get_authorization_url"
          /\ calls[Len(calls) - 1].tool = "is_service_connected"
          /\ calls[Len(calls) - 1].result = "false"
          /\ calls[Len(calls)].target = calls[Len(calls) - 1].target
          /\ \A i \in DOMAIN calls :
                calls[i].tool \in {"is_service_connected", "get_authorization_url"}
          /\ CountCalls(calls, LAMBDA c : c.tool = "get_authorization_url") = 1
          /\ deals = <<>>
    /\ pc = "halted_auth" => NotConnectedReported

\* a run halted because the sink is not connected, the source being connected
C5_Witness ==
    /\ pc = "halted_auth"
    /\ calls[Len(calls)].target = "slack"
    /\ \E i \in DOMAIN calls :
          calls[i].tool = "is_service_connected" /\ calls[i].result = "true"

\* C6: a run without changed deals takes the no-change path: it sends the
\* "no changes" notice to the channel, once, when a channel is configured,
\* and nothing when none is; it sends no direct message and ends there.
C6_NoChangeRun ==
    /\ (pc \in AfterSave /\ changed_deals = <<>>)
          => pc \in {"no_changes", "finished_no_changes"}
    /\ pc = "no_changes" => changed_deals = <<>> /\ CountCalls(calls, IsSend) = 0
    /\ pc = "finished_no_changes" =>
          /\ changed_deals = <<>>
          /\ CountCalls(calls, IsDm) = 0
          /\ IF DIGEST_CHANNEL_ID /= ""
             THEN /\ CountCalls(calls, IsSend) = 1
                  /\ IsNotice(calls[Len(calls)])
                  /\ calls[Len(calls)].target = DIGEST_CHANNEL_ID
             ELSE CountCalls(calls, IsSend) = 0

\* a finished no-change run that fetched records, none of them changed, and
\* sent the notice
C6_Witness ==
    /\ pc = "finished_no_changes"
    /\ deals /= <<>>
    /\ DIGEST_CHANNEL_ID /= ""
    /\ IsNotice(calls[Len(calls)])

\* C7: a run with changed deals ends with one summary send to the channel
\* when a channel is configured and with none when it is not; no summary is
\* sent earlier; without a channel the mapped owners still get their direct
\* messages.
C7_AggregateDelivery ==
    /\ pc /= "finished" => CountCalls(calls, IsSummary) = 0
    /\ pc = "finished" =>
          /\ changed_deals /= <<>>
          /\ IF DIGEST_CHANNEL_ID /= ""
             THEN /\ CountCalls(calls, IsSummary) = 1
                  /\ IsSummary(calls[Len(calls)])
                  /\ calls[Len(calls)].target = DIGEST_CHANNEL_ID
             ELSE /\ CountCalls(calls, IsSummary) = 0
                  /\ \A o \in OwnersChanged \cap DOMAIN owner_to_slack : DmCount(o) = 1

\* a finished run without channel that sent a direct message
C7_Witness ==
    /\ pc = "finished"
    /\ DIGEST_CHANNEL_ID = ""
    /\ CountCalls(calls, IsDm) >= 1

\* the sends of a log, without their results
AttemptOf(c) == [target |-> c.target, kind |-> c.text.kind, owner |-> c.owner]
Attempts(log) ==
    LET sends == SelectSeq(log, IsSend)
    IN  [i \in DOMAIN sends |-> AttemptOf(sends[i])]
\* the direct messages due to the first n owners of the grouping
DmsDue(n) ==
    LET mapped == SelectSeq(SubSeq(grouped, 1, n),
                            LAMBDA item : item.owner \in DOMAIN owner_to_slack)
    IN  [i \in DOMAIN mapped |->
            [target |-> owner_to_slack[mapped[i].owner], kind |-> "dm",
             owner |-> mapped[i].owner]]
SummaryDue ==
    IF DIGEST_CHANNEL_ID /= ""
    THEN <<[target |-> DIGEST_CHANNEL_ID, kind |-> "summary", owner |-> None]>>
    ELSE <<>>

\* C8: the sends attempted depend on the grouping, the mapping and the
\* channel only, not on what earlier sends returned: after the i-th owner the
\* attempts are the direct messages of the mapped owners among the first i,
\* and at the end those of all mapped owners followed by the summary when a
\* channel is configured.
C8_BestEffortFanOut ==
    /\ pc = "dm_loop" => Attempts(calls) = DmsDue(dm_index - 1)
    /\ pc = "summary" => Attempts(calls) = DmsDue(Len(grouped))
    /\ pc = "finished" => Attempts(calls) = DmsDue(Len(grouped)) \o SummaryDue

\* a finished run whose first direct message failed and that attempted a
\* second direct message and the summary behind it
C8_Witness ==
    /\ pc = "finished"
    /\ LET sends == SelectSeq(calls, IsSend)
       IN  /\ Len(sends) = 3
           /\ IsDm(sends[1]) /\ sends[1].result = None
           /\ IsDm(sends[2])
           /\ IsSummary(sends[3])

\* the display-name lookup for a Slack user came back without a name
LookupFailed(slack_user_id) ==
    \E i \in DOMAIN calls :
        /\ calls[i].tool = "slack_get_user_info"
        /\ calls[i].target = slack_user_id
        /\ calls[i].result = None

\* C9: the channel summary has one block for every owner with a changed
\* record, mapped or not, and no other block; the block of an owner without
\* mapping entry, or whose display-name lookup gave no name, is labelled with
\* the owner identifier; the total is the number of changed records.
C9_SummaryCoversAllOwners ==
    (pc = "finished" /\ DIGEST_CHANNEL_ID /= "") =>
        LET text == calls[Len(calls)].text
            blocks == text.owners
        IN  /\ text.kind = "summary"
            /\ \A o \in OwnersChanged :
                  Cardinality({i \in DOMAIN blocks : blocks[i].owner = o}) = 1
            /\ \A i \in DOMAIN blocks : blocks[i].owner \in OwnersChanged
            /\ \A i \in DOMAIN blocks :
                  LET o == blocks[i].owner
                  IN  (o \notin DOMAIN owner_to_slack \/ LookupFailed(owner_to_slack[o]))
                          => blocks[i].label = o
            /\ text.total = Len(changed_deals)

\* a summary with an owner without mapping entry and an owner whose lookup
\* failed
C9_Witness ==
    /\ pc = "finished"
    /\ DIGEST_CHANNEL_ID /= ""
    /\ \E o \in OwnersChanged : o \notin DOMAIN owner_to_slack
    /\ \E o \in OwnersChanged :
          o \in DOMAIN owner_to_slack /\ LookupFailed(owner_to_slack[o])

\* a response that is a page of records
WellFormed(r) == r.truthy /\ r.is_dict
\* a response that is a page with a next cursor
HasNext(r) == WellFormed(r) /\ r.next /= None /\ r.next /= ""
\* the records of the well-formed pages of a sequence of responses, in order
RECURSIVE RecordsOf(_)
RecordsOf(rs) ==
    IF rs = <<>> THEN <<>>
    ELSE (IF WellFormed(Head(rs)) THEN Head(rs).results ELSE <<>>) \o RecordsOf(Tail(rs))

\* C10: during and at the end of fetch_recent_deals, the first request has
\* carried no cursor and every later one the next cursor of the response
\* before it; every response but the last was a page with a next cursor; the
\* loop has ended if and only if the last response is null, malformed or
\* without next cursor; and all_results is the concatenation, in page order,
\* of the records of the well-formed pages received.
C10_Pagination ==
    pc \in {"fetch", "fetched"} =>
        /\ Len(requests) = page /\ Len(responses) = page
        /\ page >= 1 => requests[1] = None
        /\ \A k \in 2..page : requests[k] = responses[k - 1].next
        /\ \A k \in 1..(page - 1) : HasNext(responses[k])
        /\ pc = "fetched" => page >= 1 /\ ~HasNext(responses[page])
        /\ (pc = "fetch" /\ page >= 1) => HasNext(responses[page])
        /\ all_results = RecordsOf(responses)

\* a fetch ended by a null or malformed second response that keeps the
\* records of the first page
C10_Witness ==
    /\ pc = "fetched"
    /\ page = 2
    /\ ~WellFormed(responses[2])
    /\ responses[1].results /= <<>>
    /\ all_results = responses[1].results

\* C11: the collection fetch_recent_deals returns holds no two records
\* with the same identifier.
C11_FetchDeduplicated ==
    pc = "fetched" =>
        \A i, j \in DOMAIN all_results :
            i /= j => DealId(all_results[i]) /= DealId(all_results[j])

(***************************************************************************)
(* The run under the scheduling of a synchronous single-threaded process:  *)
(* every call returns, so a step that can be taken is taken.               *)
(***************************************************************************)
FairSpec == Spec /\ WF_vars(Next)

\* the positions of a run behind fetch_recent_deals that has no changed deal
NoChangePath == {"load_snapshot", "detect", "save_snapshot", "no_changes",
                 "finished_no_changes"}

\* C12 as stated: when the first search request fails or its page has no
\* records, fetch_recent_deals returns an empty collection.
C12_EmptyFirstPage ==
    (pc = "fetched" /\ (~responses[1].truthy \/ responses[1].results = <<>>))
        => all_results = <<>>

\* a first response that ends the fetch with nothing: null, malformed, or a
\* page without records and without next cursor
EndsEmpty(r) == ~WellFormed(r) \/ (r.results = <<>> /\ ~HasNext(r))

\* C12 (amended): when the first search request fails, is malformed or
\* returns an empty page without next cursor, the fetch ends after that one
\* request with an empty collection; a run that fetched nothing has no
\* changed deal, stays on the no-change path, sends at most the one "no
\* changes" notice and reaches the end of that path.
C12_FetchFailureNotFatal ==
    /\ []((pc \in {"fetch", "fetched"} /\ page >= 1 /\ EndsEmpty(responses[1]))
             => (pc = "fetched" /\ page = 1 /\ all_results = <<>>))
    /\ [][pc = "fetched" => (pc' = "load_snapshot" /\ deals' = all_results)]_vars
    /\ []((pc \in AfterDetect /\ deals = <<>>)
             => /\ changed_deals = <<>>
                /\ pc \in NoChangePath
                /\ CountCalls(calls, IsSend) <= 1
                /\ CountCalls(calls, IsSend) = CountCalls(calls, IsNotice))
    /\ (pc = "fetched" /\ all_results = <<>>) ~> (pc = "finished_no_changes")

\* a run whose first search request failed and that ended with the notice
C12_Witness ==
    /\ pc = "finished_no_changes"
    /\ deals = <<>>
    /\ CountCalls(calls, LAMBDA c : c.tool = "hubspot_deals_search") = 1
    /\ IsNotice(calls[Len(calls)])

(***************************************************************************)
(* Grouping and rendering on their own: run_digest behind save_snapshot in *)
(* a first run (empty previous snapshot, so every fetched deal is changed) *)
(* that fetched any sequence of at most MaxChanged deals, with or without  *)
(* owner.                                                                  *)
(***************************************************************************)
MaxChanged == 4    \* deals of the fetch that is grouped and rendered

\* deals with an owner and deals without
RenderDeals ==
    {[id |-> d, hubspot_owner_id |-> o, hs_lastmodifieddate |-> "t1"] :
        d \in DealIds, o \in OwnerIds \cup {None}}

\* the calls of a run up to save_snapshot, all answered well
CallsBeforeGroup ==
    <<Call("is_service_connected", "hubspotcrm", NoText, "true", None),
      Call("is_service_connected", "slack", NoText, "true", None),
      Call("hubspot_deals_search", "hubspot", NoText, "result", None),
      Call("load_snapshot", "file", NoText, "dict", None),
      Call("save_snapshot", "file", NoText, "written", None)>>

InitRender ==
    /\ HUBSPOT_IDENTIFIER = "hs-user"
    /\ SLACK_IDENTIFIER = "slack-user"
    /\ DIGEST_CHANNEL_ID = "C1"
    /\ mapping_file \in Mappings
    /\ owner_to_slack = mapping_file
    /\ all_results = <<>>
    /\ after = None
    /\ page = 0
    /\ requests = <<>>
    /\ responses = <<>>
    /\ deals \in SeqUpTo(RenderDeals, MaxChanged) \ {<<>>}
    /\ previous_snapshot = EmptyDict
    /\ current_snapshot = DetectFrom(deals, EmptyDict, 1, EmptyDict, <<>>).current_snapshot
    /\ changed_deals = deals
    /\ snapshot_file = current_snapshot
    /\ grouped = <<>>
    /\ dm_index = 0
    /\ calls = CallsBeforeGroup
    /\ pc = "group"
    /\ unnotified = {}

NextRender ==
    \/ Group
    \/ SendDm
    \/ SendSummary

SpecRender == InitRender /\ [][NextRender]_vars

\* the owner a record is filed under: its owner identifier, "unknown" when
\* it has none
FiledUnder(r) == IF r.hubspot_owner_id = None THEN "unknown" ELSE r.hubspot_owner_id
\* the records of R filed under owner o, in the order of R
RecordsFiledUnder(R, o) == SelectSeq(R, LAMBDA r : FiledUnder(r) = o)

\* C13: the grouping has one list per owner of the input, each list holds
\* the input records of its owner, all of them, once each and in input
\* order, and the records without owner are in the list of "unknown"; so
\* the lists together hold every input record exactly once.
C13_GroupingPartitions ==
    pc \in {"dm_loop", "summary", "finished"} =>
        /\ \A i, j \in DOMAIN grouped : i /= j => grouped[i].owner /= grouped[j].owner
        /\ {grouped[i].owner : i \in DOMAIN grouped}
              = {FiledUnder(changed_deals[k]) : k \in DOMAIN changed_deals}
        /\ \A i \in DOMAIN grouped :
              grouped[i].deals = RecordsFiledUnder(changed_deals, grouped[i].owner)

\* a grouping where two records without owner, with a record of an owner
\* between them, are together under "unknown"
C13_Witness ==
    /\ pc = "dm_loop"
    /\ \E i \in DOMAIN grouped : grouped[i].owner = "unknown" /\ Len(grouped[i].deals) = 2
    /\ \E a, b, c \in DOMAIN changed_deals :
          /\ a < b /\ b < c
          /\ changed_deals[a].hubspot_owner_id = None
          /\ changed_deals[b].hubspot_owner_id /= None
          /\ changed_deals[c].hubspot_owner_id = None

\* the position of owner o in the grouping
GroupPosition(o) == CHOOSE i \in DOMAIN grouped : grouped[i].owner = o
\* the channel summary the run has sent
SentSummary == calls[Len(calls)].text

\* C14: the blocks of the channel summary are in non-increasing order of
\* their number of deals, and blocks with equal numbers are in the order in
\* which their owners entered the grouping.
C14_SummaryOrder ==
    pc = "finished" =>
        LET blocks == SentSummary.owners
        IN  \A i, j \in DOMAIN blocks :
               i < j =>
                  /\ blocks[i].count >= blocks[j].count
                  /\ blocks[i].count = blocks[j].count
                        => GroupPosition(blocks[i].owner) < GroupPosition(blocks[j].owner)

\* a summary of three owners: the last one to enter the grouping has most
\* deals and comes first, the other two have one deal each
C14_Witness ==
    /\ pc = "finished"
    /\ Len(grouped) = 3
    /\ Len(grouped[1].deals) = 1
    /\ Len(grouped[2].deals) = 1
    /\ Len(grouped[3].deals) = 2
    /\ SentSummary.owners[1].owner = grouped[3].owner
    /\ SentSummary.owners[2].owner = grouped[1].owner
    /\ SentSummary.owners[3].owner = grouped[2].owner

\* C15: the block of an owner with n changed records shows the first
\* min(n, 3) of them, in grouping order, and has a line "...and n - 3 more"
\* if and only if n > 3.
C15_Truncation ==
    pc = "finished" =>
        LET blocks == SentSummary.owners
        IN  \A i \in DOMAIN blocks :
               LET mine == RecordsFiledUnder(changed_deals, blocks[i].owner)
                   n == Len(mine)
               IN  /\ blocks[i].count = n
                   /\ blocks[i].shown = SubSeq(mine, 1, IF n < 3 THEN n ELSE 3)
                   /\ blocks[i].more = IF n > 3 THEN <<n - 3>> ELSE <<>>

\* a summary with an owner of four records: three shown, "...and 1 more"
C15_Witness ==
    /\ pc = "finished"
    /\ \E i \in DOMAIN SentSummary.owners :
          /\ SentSummary.owners[i].count = 4
          /\ Len(SentSummary.owners[i].shown) = 3
          /\ SentSummary.owners[i].more = <<1>>
          /\ SentSummary.owners[i].shown[1] /= SentSummary.owners[i].shown[2]

\* an environment variable that is absent or empty
NotSet(x) == x = None \/ x = ""

\* C16: while the HubSpot identifier or the Slack identifier is not set, no
\* run makes an external call (no connection check, no authorization link,
\* no search, no snapshot read or write, no send): the run is at its start
\* or has halted there, and the snapshot file is as it was before the first
\* run.
C16_MissingIdentifierHalts ==
    (NotSet(HUBSPOT_IDENTIFIER) \/ NotSet(SLACK_IDENTIFIER)) =>
        /\ pc \in {"start", "halted_config"}
        /\ calls = <<>>
        /\ snapshot_file = EmptyDict
        /\ deals = <<>>
        /\ page = 0

\* a run halted with the HubSpot identifier set and the Slack identifier not
C16_Witness ==
    /\ pc = "halted_config"
    /\ HUBSPOT_IDENTIFIER /= None
    /\ SLACK_IDENTIFIER = None
    /\ calls = <<>>

IsLoad(c) == c.tool = "load_snapshot"
IsSave(c) == c.tool = "save_snapshot"
\* the positions of a run before save_snapshot has been called
BeforeSave == {"start", "probe_hubspot", "probe_slack", "load_mapping", "fetch",
               "fetched", "load_snapshot", "detect", "save_snapshot",
               "halted_config", "halted_auth"}

\* C17: a run loads the previous snapshot at most once and writes the new
\* one at most once; behind the detection loop it has loaded it exactly
\* once, and behind save_snapshot (so at both normal ends) it has written
\* exactly once. When the write is due the detection loop has gone over all
\* fetched records, and before the write no message has been sent: the load
\* comes before the write and the write before every send.
C17_SnapshotWriteOrder ==
    /\ CountCalls(calls, IsLoad) <= 1
    /\ CountCalls(calls, IsSave) <= 1
    /\ pc \in AfterDetect => CountCalls(calls, IsLoad) = 1
    /\ pc \in AfterSave => CountCalls(calls, IsSave) = 1
    /\ pc \in BeforeSave =>
          /\ CountCalls(calls, IsSave) = 0
          /\ CountCalls(calls, IsSend) = 0
    /\ pc = "save_snapshot" =>
          /\ DOMAIN current_snapshot = IdsOf(deals)
          /\ \A i \in DOMAIN changed_deals : NewOrModified(previous_snapshot, changed_deals[i])
    /\ \A i, j \in DOMAIN calls :
          /\ (IsLoad(calls[i]) /\ IsSave(calls[j])) => i < j
          /\ (IsSave(calls[i]) /\ IsSend(calls[j])) => i < j

\* a finished run with changed deals: one load, then one write, then sends
C17_Witness ==
    /\ pc = "finished"
    /\ changed_deals /= <<>>
    /\ \E i \in DOMAIN calls :
          /\ IsLoad(calls[i])
          /\ IsSave(calls[i + 1])
          /\ i + 3 <= Len(calls)
          /\ IsDm(calls[i + 2])
          /\ IsSummary(calls[Len(calls)])

\* the sends of a log: recipient and text of each, in order
RECURSIVE SendsOf(_)
SendsOf(log) ==
    IF log = <<>> THEN <<>>
    ELSE (IF IsSend(Head(log))
          THEN <<[target |-> Head(log).target, text |-> Head(log).text]>>
          ELSE <<>>) \o SendsOf(Tail(log))

\* what a run has to deliver, from the fetched records, the loaded snapshot,
\* the mapping and the channel setting alone
DueChanged == SelectSeq(deals, LAMBDA r : NewOrModified(previous_snapshot, r))
DueGrouped == group_deals_by_owner(DueChanged)
RECURSIVE DueDms(_)
DueDms(items) ==
    IF items = <<>> THEN <<>>
    ELSE (IF Truthy(DictGet(owner_to_slack, Head(items).owner))
          THEN <<[target |-> DictGet(owner_to_slack, Head(items).owner),
                  text |-> build_dm_message(Head(items).deals)]>>
          ELSE <<>>) \o DueDms(Tail(items))
\* the sends of a run with changed deals whose name lookups answered as in found
DueSends(found) ==
    LET sorted == SortedByCount(DueGrouped)
        names == [i \in DOMAIN sorted |-> OwnerName(owner_to_slack, sorted[i].owner, found[i])]
    IN  DueDms(DueGrouped) \o
        (IF DIGEST_CHANNEL_ID /= ""
         THEN <<[target |-> DIGEST_CHANNEL_ID, text |-> build_channel_summary(DueGrouped, names)]>>
         ELSE <<>>)
DueNotice ==
    IF DIGEST_CHANNEL_ID /= ""
    THEN <<[target |-> DIGEST_CHANNEL_ID, text |-> NoChangesMessage]>>
    ELSE <<>>
SaveFailed(c) == IsSave(c) /\ c.result /= "written"

\* C18: what a run sends does not depend on the outcome of the snapshot
\* write. At its end the sequence of sends (recipients and texts) is the one
\* fixed by the fetched records, the loaded snapshot, the mapping, the
\* channel setting and the answers of the name lookups, whether the write
\* succeeded or failed; the step behind save_snapshot is chosen by
\* changed_deals alone, and from save_snapshot every run gets to its normal
\* end.
C18_WriteFailureDoesNotBlock ==
    /\ [](pc = "finished_no_changes" =>
             /\ DueChanged = <<>>
             /\ SendsOf(calls) = DueNotice)
    /\ [](pc = "finished" =>
             /\ DueChanged /= <<>>
             /\ \E found \in [1..Len(DueGrouped) -> BOOLEAN] : SendsOf(calls) = DueSends(found))
    /\ [][pc = "save_snapshot" =>
             pc' = IF changed_deals = <<>> THEN "no_changes" ELSE "group"]_vars
    /\ (pc = "save_snapshot") ~> (pc \in {"finished", "finished_no_changes"})

\* a finished run whose snapshot write failed and that sent a direct
\* message and the channel summary
C18_Witness ==
    /\ pc = "finished"
    /\ CountCalls(calls, SaveFailed) = 1
    /\ snapshot_file /= current_snapshot
    /\ Len(SendsOf(calls)) >= 2
    /\ IsSummary(calls[Len(calls)])

\* the ends of a run that got past the identifier checks
RunEnds == {"halted_auth", "finished_no_changes", "finished"}

\* C19: each step of the pagination loop issues one search request, the
\* next one only behind the answer to the one before; the loop goes on after
\* a page, whatever the number of pages so far, exactly when the answer is a
\* page with a next cursor, and ends exactly when it is null, malformed or
\* without one. So after k requests the run is in the loop if and only if
\* all k answers had a next cursor; and as the cursor chain of the source
\* ends, every run gets to an end (halted at the authorization, finished
\* after the no-change notice or after the summary step).
C19_Termination ==
    /\ [][pc = "fetch" =>
             /\ page' = page + 1
             /\ Len(requests') = page'
             /\ Len(responses') = page'
             /\ calls' = Append(calls, calls'[Len(calls')])
             /\ calls'[Len(calls')].tool = "hubspot_deals_search"
             /\ (pc' = "fetch" <=> HasNext(responses'[page']))
             /\ (pc' = "fetched" <=> ~HasNext(responses'[page']))]_vars
    /\ []((pc = "fetch" /\ page >= 1) => \A k \in 1..page : HasNext(responses[k]))
    /\ [](pc = "fetched" =>
             /\ ~HasNext(responses[page])
             /\ \A k \in 1..(page - 1) : HasNext(responses[k]))
    /\ (pc = "probe_hubspot") ~> (pc \in RunEnds)
    /\ (pc = "fetch") ~> (pc = "fetched")

\* a loop of two requests: the first answer had a next cursor, the second
\* is a page without one
C19_Witness ==
    /\ pc = "fetched"
    /\ page = 2
    /\ Len(requests) = 2
    /\ HasNext(responses[1])
    /\ WellFormed(responses[2])
    /\ ~HasNext(responses[2])

SaveWritten(c) == IsSave(c) /\ c.result = "written"

\* C20: behind a successful snapshot write the file holds the identifiers
\* of the records this run fetched and no other: a run that fetched nothing
\* (its first page failed, or was empty) leaves an empty snapshot, and a
\* record of an earlier snapshot that this run did not receive is gone.
\* The file stays as it is until the next save_snapshot, the next run loads
\* it, and a run that loaded an empty snapshot has every fetched record in
\* changed_deals, whatever its marker.
C20_EmptyFetchErasesSnapshot ==
    /\ []((pc \in AfterSave /\ CountCalls(calls, SaveWritten) = 1) =>
             /\ DOMAIN snapshot_file = IdsOf(deals)
             /\ deals = <<>> => snapshot_file = EmptyDict
             /\ \A id \in DOMAIN previous_snapshot :
                   id \notin IdsOf(deals) => id \notin DOMAIN snapshot_file)
    /\ [][pc /= "save_snapshot" => snapshot_file' = snapshot_file]_vars
    /\ [][pc = "load_snapshot" => previous_snapshot' = snapshot_file]_vars
    /\ []((pc \in AfterDetect /\ previous_snapshot = EmptyDict) => changed_deals = deals)

\* a run that loaded a snapshot with records, fetched nothing and wrote: the
\* file is empty
C20_Witness ==
    /\ pc = "finished_no_changes"
    /\ previous_snapshot /= EmptyDict
    /\ deals = <<>>
    /\ CountCalls(calls, SaveWritten) = 1
    /\ snapshot_file = EmptyDict

(***************************************************************************)
(* Runs with a memory of the run before: what the next run starts from is  *)
(* as in NewRun, and the history variable keeps the changed deals of the   *)
(* ended run whose snapshot was written and whose message failed.          *)
(***************************************************************************)
SendFailed(c) == IsSend(c) /\ c.result = None
\* the records of a message text
RecordsIn(text) ==
    CASE text.kind = "dm" -> {text.deals[i] : i \in DOMAIN text.deals}
      [] text.kind = "summary" ->
            UNION {{text.owners[b].shown[i] : i \in DOMAIN text.owners[b].shown} :
                      b \in DOMAIN text.owners}
      [] OTHER -> {}
\* the changed deals of the run at its end that are in a message whose send
\* failed, when save_snapshot wrote the file
Unnotified ==
    IF pc = "finished" /\ CountCalls(calls, SaveWritten) = 1
    THEN {changed_deals[i] : i \in DOMAIN changed_deals} \cap
         UNION {RecordsIn(calls[k].text) : k \in {j \in DOMAIN calls : SendFailed(calls[j])}}
    ELSE {}

\* the next scheduled run, as NewRun, with the history kept
NewRunRemember ==
    /\ pc \in Terminal
    /\ pc' = "start"
    /\ owner_to_slack' = EmptyDict
    /\ all_results' = <<>>
    /\ after' = None
    /\ page' = 0
    /\ requests' = <<>>
    /\ responses' = <<>>
    /\ deals' = <<>>
    /\ previous_snapshot' = EmptyDict
    /\ current_snapshot' = EmptyDict
    /\ changed_deals' = <<>>
    /\ grouped' = <<>>
    /\ dm_index' = 0
    /\ calls' = <<>>
    /\ unnotified' = Unnotified
    /\ UNCHANGED <<settings, snapshot_file>>

NextHistory ==
    \/ CheckIdentifiers
    \/ ProbeHubspot
    \/ ProbeSlack
    \/ LoadMapping
    \/ FetchPage
    \/ FetchReturn
    \/ LoadSnapshot
    \/ Detect
    \/ SaveSnapshot
    \/ NoChangesNotice
    \/ Group
    \/ SendDm
    \/ SendSummary
    \/ NewRunRemember

SpecHistory == Init /\ [][NextHistory]_vars

\* C21: a changed deal of run N whose snapshot was written and whose direct
\* message or channel summary failed is, when run N+1 fetches the same
\* record with the same marker, not in changed_deals of run N+1, and run
\* N+1 sends no message with it.
C21_FailedNotificationNotResent ==
    pc \in AfterDetect =>
        \A r \in unnotified :
            (\E i \in DOMAIN deals : deals[i] = r) =>
                /\ \A k \in DOMAIN changed_deals : changed_deals[k] /= r
                /\ \A j \in DOMAIN calls :
                      IsSend(calls[j]) => r \notin RecordsIn(calls[j].text)
=============================================================================
